---- MODULE Spec2Model ----
(***************************************************************************)
(* A model of BAR.py, the OBS Studio backup and restore script.            *)
(*                                                                         *)
(* File names are sequences of chunks whose concatenation is the name: a   *)
(* leading "." is a chunk of its own and so is a trailing extension        *)
(* (".tmp", ".lock", ".zip", ...), so that str.startswith(".") and          *)
(* str.endswith(".tmp") are computed on the name and not looked up.        *)
(* A relative path is the sequence of its names (its as_posix() form split *)
(* at "/").  A directory tree is a function from relative paths to nodes,  *)
(* the empty path being the root directory; the function with the empty    *)
(* domain is a root that does not exist.                                   *)
(***************************************************************************)
EXTENDS Integers, Sequences, FiniteSets, TLC

VARIABLES
    cfg,        \* the tree at get_obs_config_dir()
    snaps,      \* the obs-studio.before-restore-<stamp> trees beside it, by stamp
    now,        \* the clock, in seconds: now_stamp() is its text
    settings,   \* _shadow_settings
    obs_settings, \* the settings object OBS holds and hands to script_update
    src,        \* what is on disk at the local restore path
    backups,    \* the tree at the local backup folder
    remote,     \* the files of the GitHub repository branch
    fault,      \* the step the environment makes fail, if any
    walked,     \* what the last iter_obs_files call yielded and pruned
    collected,  \* what the last remote traversal collected
    last,       \* the last operation: its return value and what it logged
    pre,        \* the config tree and snapshots the last operation started from
    pc,         \* where the run is
    turn        \* the turn of the overwrite loop a restore run step by step is at

vars == <<cfg, snaps, now, settings, obs_settings, src, backups, remote, fault, walked, collected, last, pre, pc, turn>>

----------------------------------------------------------------------------
(* Bounds *)

\* file contents are the byte strings 1..MaxData
MaxData == 2

\* F applied to the value of v: v is evaluated once, where it stands
With(v, F(_)) == CHOOSE r \in {F(x) : x \in {v}} : TRUE
With2(v, w, F(_, _)) == CHOOSE r \in {F(x, y) : x \in {v}, y \in {w}} : TRUE

----------------------------------------------------------------------------
(* Names and paths *)

Plain(s) == <<s>>
Dotted(s) == <<".", s>>
WithExt(s, ext) == <<s, ext>>

OBS_STUDIO == Plain("obs-studio")

StartsWithDot(name) == Len(name) > 0 /\ name[1] = "."
EndsWith(name, ext) == Len(name) > 0 /\ name[Len(name)] = ext

IsPrefix(a, b) == Len(a) <= Len(b) /\ SubSeq(b, 1, Len(a)) = a
IsUnder(p, d) == IsPrefix(d, p) /\ Len(p) > Len(d)
Parent(p) == SubSeq(p, 1, Len(p) - 1)
BaseName(p) == p[Len(p)]
\* a.relative_to(b) for a under b
RelativeTo(p, d) == SubSeq(p, Len(d) + 1, Len(p))
Ancestors(p) == {SubSeq(p, 1, n) : n \in 0..(Len(p) - 1)}

----------------------------------------------------------------------------
(* Path strings: a posix path string is the sequence of its names with the
   one-character name SLASH between them *)

SLASH == <<"/">>

\* Path.as_posix() of a relative path
RECURSIVE AsPosix(_)
AsPosix(p) ==
    IF Len(p) = 0 THEN <<>>
    ELSE IF Len(p) = 1 THEN p
    ELSE <<Head(p), SLASH>> \o AsPosix(Tail(p))

\* the names of a path string: Path(s).parts, and how the contents API
\* resolves a path
Components(s) == SelectSeq(s, LAMBDA n : n # SLASH)

\* str.rstrip("/") and str.strip("/")
RECURSIVE RStrip(_)
RStrip(s) ==
    IF Len(s) > 0 /\ s[Len(s)] = SLASH THEN RStrip(SubSeq(s, 1, Len(s) - 1)) ELSE s
RECURSIVE LStrip(_)
LStrip(s) == IF Len(s) > 0 /\ s[1] = SLASH THEN LStrip(Tail(s)) ELSE s
Strip(s) == LStrip(RStrip(s))

\* len(): the number of characters
RECURSIVE NameLen(_)
NameLen(name) == IF name = <<>> THEN 0 ELSE Len(Head(name)) + NameLen(Tail(name))
RECURSIVE StrLen(_)
StrLen(s) == IF s = <<>> THEN 0 ELSE NameLen(Head(s)) + StrLen(Tail(s))

\* what is left of a name cut inside
CUT == <<"?">>

\* s[n:]
RECURSIVE Slice(_, _)
Slice(s, n) ==
    IF n <= 0 \/ s = <<>> THEN s
    ELSE IF NameLen(Head(s)) <= n THEN Slice(Tail(s), n - NameLen(Head(s)))
    ELSE <<CUT>> \o Tail(s)

----------------------------------------------------------------------------
(* Directory trees *)

DirNode == [kind |-> "dir", data |-> 0]
FileNode(d) == [kind |-> "file", data |-> d]

NoTree == [p \in {} |-> DirNode]
EmptyDir == [p \in {<<>>} |-> DirNode]

Exists(t, p) == p \in DOMAIN t
IsDir(t, p) == p \in DOMAIN t /\ t[p].kind = "dir"
IsFile(t, p) == p \in DOMAIN t /\ t[p].kind = "file"

FilesOf(t) == {p \in DOMAIN t : t[p].kind = "file"}
DirsOf(t) == {p \in DOMAIN t : t[p].kind = "dir"}

\* the tree holding exactly the files of f (a function from paths to data)
\* and the directories above them
TreeOfFiles(f) ==
    With(f, LAMBDA fv :
        [p \in (DOMAIN fv) \cup UNION {Ancestors(q) : q \in DOMAIN fv} \cup {<<>>} |->
            IF p \in DOMAIN fv THEN FileNode(fv[p]) ELSE DirNode])

\* every node but the root has its parent directory in the tree
WellFormed(t) ==
    \A p \in DOMAIN t : p # <<>> => IsDir(t, Parent(p))

\* os.scandir: the names in directory d
Entries(t, d) == {BaseName(p) : p \in {q \in DOMAIN t : Len(q) = Len(d) + 1 /\ IsPrefix(d, q)}}

\* the order in which the file system lists a set of entries: some fixed order
RECURSIVE Listing(_)
Listing(S) ==
    IF S = {} THEN <<>>
    ELSE LET x == CHOOSE y \in S : TRUE IN <<x>> \o Listing(S \ {x})

RECURSIVE Flatten(_)
Flatten(ss) == IF ss = <<>> THEN <<>> ELSE Head(ss) \o Flatten(Tail(ss))

Range(s) == {s[i] : i \in 1..Len(s)}

----------------------------------------------------------------------------
(* Settings keys, BAR.py:23-38 *)

K_DEST_TYPE == "dest_type"
K_INCLUDE_LOGS == "include_logs"
K_INCLUDE_CACHE == "include_cache"

----------------------------------------------------------------------------
(* The walker *)

\* the exclusion entries, as path strings
EX_CRASHES == <<Plain("crashes")>>
EX_CEF_CACHE == <<Plain("plugin_config"), SLASH, Plain("cef_cache")>>
EX_CACHE == <<Plain("cache")>>
EX_LOGS == <<Plain("logs")>>

\* a faulty variant: the cache flag leaves the cache exclusions in place
ExcludedDirsKeepCache(include_logs, include_cache) ==
    {EX_CRASHES, EX_CEF_CACHE, EX_CACHE} \cup (IF ~include_logs THEN {EX_LOGS} ELSE {})

_excluded_dirs(include_logs, include_cache) ==
    LET base == {EX_CRASHES, EX_CEF_CACHE, EX_CACHE}
        withLogs == IF ~include_logs THEN base \cup {EX_LOGS} ELSE base
    IN  IF include_cache THEN withLogs \ {EX_CACHE, EX_CEF_CACHE} ELSE withLogs

\* a faulty variant: the comparison of the bare directory name is left out
DirExcludedByPath(rel, d, excludes) ==
    \E ex \in excludes : rel = ex \/ IsPrefix(RStrip(ex) \o <<SLASH>>, rel)

\* BAR.py:118-121: rel == ex or rel.startswith(ex.rstrip("/") + "/") or d == ex,
\* rel the directory's as_posix() string and d its name
DirExcluded(rel, d, excludes) ==
    \E ex \in excludes :
        rel = ex \/ IsPrefix(RStrip(ex) \o <<SLASH>>, rel) \/ <<d>> = ex

FileSkipped(f) == EndsWith(f, ".tmp") \/ EndsWith(f, ".lock")

\* os.walk top-down from directory root of tree t with the pruning of
\* iter_obs_files: the files yielded in order (each as its path p below the
\* config root; the rel yielded with it is AsPosix(p)), the directories
\* removed from dirs, and the directories walked
RECURSIVE WalkFrom(_, _, _)
WalkFrom(t, root, excludes) ==
    With(Entries(t, root), LAMBDA names :
    With({d \in names : IsDir(t, Append(root, d))}, LAMBDA dirs :
    With({d \in dirs :
            StartsWithDot(d) \/ DirExcluded(AsPosix(Append(root, d)), d, excludes)},
         LAMBDA pruned :
    With2(SelectSeq(Listing(names \ dirs), LAMBDA f : ~FileSkipped(f)),
          Listing(dirs \ pruned), LAMBDA here, kept :
    With([i \in 1..Len(kept) |-> WalkFrom(t, Append(root, kept[i]), excludes)],
         LAMBDA below :
        [files |-> [i \in 1..Len(here) |-> Append(root, here[i])]
                   \o Flatten([i \in 1..Len(kept) |-> below[i].files]),
         pruned |-> {Append(root, d) : d \in pruned}
                    \cup UNION {below[i].pruned : i \in 1..Len(kept)},
         visited |-> {root} \cup UNION {below[i].visited : i \in 1..Len(kept)}])))))

NoWalk ==
    [raised |-> FALSE, called |-> FALSE, excludes |-> {}, files |-> <<>>,
     pruned |-> {}, visited |-> {}, tree |-> NoTree]

\* iter_obs_files: raises FileNotFoundError when the config root is absent;
\* tree is the tree that was walked
iter_obs_files(t, include_logs, include_cache) ==
    IF ~Exists(t, <<>>)
    THEN [NoWalk EXCEPT !.raised = TRUE, !.called = TRUE]
    ELSE With2(_excluded_dirs(include_logs, include_cache), t, LAMBDA excludes, tv :
         With(WalkFrom(tv, <<>>, excludes), LAMBDA w :
             [raised |-> FALSE, called |-> TRUE, excludes |-> excludes,
              files |-> w.files, pruned |-> w.pruned, visited |-> w.visited,
              tree |-> tv]))
----------------------------------------------------------------------------
(* Tree operations *)

\* shutil.rmtree(p) or p.unlink(): p and everything under it is gone
RemoveSubtree(t, p) ==
    With2(t, p, LAMBDA tv, pv : [q \in {x \in DOMAIN tv : ~IsPrefix(pv, x)} |-> tv[q]])

\* the tree rooted at p
Subtree(t, p) ==
    With2(t, p, LAMBDA tv, pv :
        [q \in {RelativeTo(x, pv) : x \in {y \in DOMAIN tv : IsPrefix(pv, y)}} |-> tv[pv \o q]])

\* shutil.copytree(s, p) or shutil.copy2(s, p): tree s placed at path p of t
Graft(t, p, s) ==
    With2(t, s, LAMBDA tv, sv : With(p, LAMBDA pv :
        [q \in (DOMAIN tv) \cup {pv \o r : r \in DOMAIN sv} |->
            IF IsPrefix(pv, q) /\ RelativeTo(q, pv) \in DOMAIN sv
            THEN sv[RelativeTo(q, pv)] ELSE tv[q]]))

\* ensure_parent(p): p.parent.mkdir(parents=True, exist_ok=True)
ensure_parent(t, p) ==
    With2(t, p, LAMBDA tv, pv :
        [q \in (DOMAIN tv) \cup Ancestors(pv) |-> IF q \in DOMAIN tv THEN tv[q] ELSE DirNode])

\* open(p, "wb").write(data)
WriteFile(t, p, data) ==
    With2(t, p, LAMBDA tv, pv :
        [q \in (DOMAIN tv) \cup {pv} |-> IF q = pv THEN FileNode(data) ELSE tv[q]])

----------------------------------------------------------------------------
(* Logging and faults *)

LogLine(level, msg, n) == [level |-> level, msg |-> msg, n |-> n]
Info(msg) == LogLine("info", msg, 0)
Warn(msg) == LogLine("warning", msg, 0)
Err(msg) == LogLine("error", msg, 0)

NoFault == [step |-> "none", at |-> 0]
\* the environment makes the at-th occurrence of a step fail
Fails(flt, step, at) == flt = [step |-> step, at |-> at]

\* the text of now_stamp() at second n
StampText == <<"20250101-000000", "20250101-000001", "20250101-000002", "20250101-000003">>
now_stamp(n) == StampText[n + 1]

----------------------------------------------------------------------------
(* The pre-restore snapshot: BAR.py:388-396 and 427-434 *)

\* rmtree of an existing backup_dir, then copytree(cfg, backup_dir); a failure
\* is logged as a warning and swallowed
TakeSnapshot(t, sn, stamp, flt) ==
    LET cleared == [k \in (DOMAIN sn) \ {stamp} |-> sn[k]]
    IN  IF Fails(flt, "snapshot", 1)
        THEN [snaps |-> cleared,
              log |-> <<Info("Backing up current config"), Warn("Unable to backup previous state")>>,
              failed |-> {"snapshot"}]
        ELSE [snaps |-> [k \in (DOMAIN sn) \cup {stamp} |-> IF k = stamp THEN t ELSE sn[k]],
              log |-> <<Info("Backing up current config")>>,
              failed |-> {}]

_backup_current_config(t, sn, stamp, flt) ==
    IF ~Exists(t, <<>>)
    THEN [snaps |-> sn, log |-> <<>>, failed |-> {}]
    ELSE TakeSnapshot(t, sn, stamp, flt)

----------------------------------------------------------------------------
(* The shared overwrite pass: BAR.py:437-453 *)

Pair(rel, data) == [rel |-> rel, data |-> data]

\* BAR.py:441-453: each pair in turn replaces its destination
RECURSIVE ApplyPairs(_, _, _, _)
ApplyPairs(t, pairs, i, flt) ==
    IF i > Len(pairs)
    THEN [cfg |-> t, exc |-> "none", failed |-> {}]
    ELSE LET rel == Components(pairs[i].rel)   \* dest = cfg / rel
             delFails == Exists(t, rel) /\ Fails(flt, "delete", i)
             swallowed == IF delFails THEN {"delete"} ELSE {}
         IN  With(IF Exists(t, rel) /\ ~delFails THEN RemoveSubtree(t, rel) ELSE t,
                  LAMBDA t1 :
             \* mkdir of a parent that is a file, or open() of a directory
             IF \/ IsDir(t1, rel) \/ \E a \in Ancestors(rel) : IsFile(t1, a)
                \/ Fails(flt, "write", i)
             THEN [cfg |-> t1, exc |-> "OSError", failed |-> swallowed \cup {"write"}]
             ELSE With(ApplyPairs(WriteFile(ensure_parent(t1, rel), rel, pairs[i].data),
                                  pairs, i + 1, flt),
                       LAMBDA r : [r EXCEPT !.failed = @ \cup swallowed]))

\* the outcome of an operation's body: the trees it leaves, the exception it
\* raised ("none" when it returned), its log lines and the steps that failed
Body(t, sn, exc, log, failed) ==
    [cfg |-> t, snaps |-> sn, exc |-> exc, log |-> log, failed |-> failed,
     entered |-> FALSE]

\* the body got as far as the routine that overwrites the config root
Entered(b) == [b EXCEPT !.entered = TRUE]

_restore_pairs_to_config(t, sn, stamp, pairs, flt) ==
    IF Fails(flt, "mkdir", 1) /\ ~Exists(t, <<>>)
    THEN Entered(Body(t, sn, "OSError", <<>>, {"mkdir"}))
    ELSE LET t0 == IF Exists(t, <<>>) THEN t ELSE EmptyDir
         IN  With2(_backup_current_config(t0, sn, stamp, flt), ApplyPairs(t0, pairs, 1, flt),
                   LAMBDA b, r :
                       Entered(Body(r.cfg, b.snaps, r.exc, b.log, b.failed \cup r.failed)))

----------------------------------------------------------------------------
(* Restore from a zip: BAR.py:384-420 *)

\* shutil.copy2(src, dest) of a file named name: into dest when dest is a
\* directory; an OSError when the target is a directory or has no parent
Copy2(t, dest, name, data) ==
    With(IF IsDir(t, dest) THEN Append(dest, name) ELSE dest, LAMBDA target :
        IF IsDir(t, target) \/ \E a \in Ancestors(target) : ~IsDir(t, a)
        THEN [tree |-> t, exc |-> "OSError"]
        ELSE [tree |-> WriteFile(t, target, data), exc |-> "none"])

\* shutil.copytree(item, dest): an OSError when dest exists
CopyTree(t, dest, s) ==
    IF Exists(t, dest) \/ \E a \in Ancestors(dest) : ~IsDir(t, a)
    THEN [tree |-> t, exc |-> "OSError"]
    ELSE [tree |-> Graft(t, dest, s), exc |-> "none"]

\* BAR.py:406-420: the top-level items of the extracted root replace those of
\* the config root
RECURSIVE ReplaceItems(_, _, _, _, _, _)
ReplaceItems(t, ex, root, items, i, flt) ==
    IF i > Len(items)
    THEN [cfg |-> t, exc |-> "none", failed |-> {}]
    ELSE LET dest == <<items[i]>>
             item == Append(root, items[i])
             delFails == Exists(t, dest) /\ Fails(flt, "delete", i)
             swallowed == IF delFails THEN {"delete"} ELSE {}
         IN  With(IF Exists(t, dest) /\ ~delFails THEN RemoveSubtree(t, dest) ELSE t,
                  LAMBDA t1 :
             With(IF IsDir(ex, item)
                  THEN CopyTree(t1, dest, Subtree(ex, item))
                  ELSE Copy2(ensure_parent(t1, dest), dest, items[i], ex[item].data),
                  LAMBDA c :
             IF c.exc # "none" \/ Fails(flt, "write", i)
             THEN [cfg |-> t1, exc |-> "OSError", failed |-> swallowed \cup {"write"}]
             ELSE With(ReplaceItems(c.tree, ex, root, items, i + 1, flt),
                       LAMBDA r : [r EXCEPT !.failed = @ \cup swallowed])))

_extract_zip_to_config(t, sn, stamp, zip, flt) ==
    IF Fails(flt, "mkdir", 1) /\ ~Exists(t, <<>>)
    THEN Entered(Body(t, sn, "OSError", <<>>, {"mkdir"}))
    ELSE LET t0 == IF Exists(t, <<>>) THEN t ELSE EmptyDir
             extracted_root == IF Exists(zip, <<OBS_STUDIO>>) THEN <<OBS_STUDIO>> ELSE <<>>
         IN  \* BAR.py:390: cfg.exists() holds here
             With(TakeSnapshot(t0, sn, stamp, flt), LAMBDA b :
             Entered(
             IF Fails(flt, "read", 1)
             THEN Body(t0, b.snaps, "BadZipFile", b.log, b.failed \cup {"read"})
             ELSE IF ~IsDir(zip, extracted_root)
             THEN Body(t0, b.snaps, "OSError", b.log \o <<Info("Restoring")>>,
                       b.failed \cup {"read"})
             ELSE With(ReplaceItems(t0, zip, extracted_root,
                                    Listing(Entries(zip, extracted_root)), 1, flt),
                       LAMBDA r :
                           Body(r.cfg, b.snaps, r.exc, b.log \o <<Info("Restoring")>>,
                                b.failed \cup r.failed))))

----------------------------------------------------------------------------
(* Restore from a folder: BAR.py:456-473 *)

\* folder.glob("*/obs-studio")
GlobObsStudio(folder) ==
    {Append(<<d>>, OBS_STUDIO) : d \in {e \in Entries(folder, <<>>) :
        Exists(folder, Append(<<e>>, OBS_STUDIO))}}

\* a faulty variant: the folder itself is always the root
RestoreRootIsFolder(name, folder) == <<>>

\* BAR.py:459-465: where the files to restore start
RestoreRoot(name, folder) ==
    IF Exists(folder, <<OBS_STUDIO>>) THEN <<OBS_STUDIO>>
    ELSE IF name # OBS_STUDIO /\ GlobObsStudio(folder) # {}
         THEN Listing(GlobObsStudio(folder))[1]
         ELSE <<>>

\* a faulty variant: glob("*") in place of rglob("*")
CollectFolderPairsTopOnly(folder, start) ==
    LET files == Listing({p \in FilesOf(folder) : IsUnder(p, start) /\ Len(p) = Len(start) + 1})
    IN  [i \in 1..Len(files) |->
            Pair(AsPosix(RelativeTo(files[i], start)), folder[files[i]].data)]

\* BAR.py:466-472: start.rglob("*"), the files as (relative path, bytes)
CollectFolderPairs(folder, start) ==
    LET files == Listing({p \in FilesOf(folder) : IsUnder(p, start)})
    IN  [i \in 1..Len(files) |->
            Pair(AsPosix(RelativeTo(files[i], start)), folder[files[i]].data)]

\* a faulty variant: each file is written as soon as it is read, so the files
\* read before a failing read are already restored when it fails
RestoreFromFolderStreaming(t, sn, stamp, source, flt) ==
    IF source.kind # "dir"
    THEN Body(t, sn, "RuntimeError", <<>>, {"source"})
    ELSE LET start == RestoreRoot(source.name, source.tree)
             pairs == CollectFolderPairs(source.tree, start)
         IN  IF \E i \in 1..Len(pairs) : Fails(flt, "read", i)
             THEN With(_restore_pairs_to_config(t, sn, stamp,
                           SubSeq(pairs, 1, flt.at - 1), NoFault),
                       LAMBDA b : [b EXCEPT !.exc = "OSError", !.failed = {"read"}])
             ELSE _restore_pairs_to_config(t, sn, stamp, pairs, flt)

_restore_from_folder(t, sn, stamp, source, flt) ==
    IF source.kind # "dir"
    THEN Body(t, sn, "RuntimeError", <<>>, {"source"})
    ELSE LET start == RestoreRoot(source.name, source.tree)
             pairs == CollectFolderPairs(source.tree, start)
         IN  IF \E i \in 1..Len(pairs) : Fails(flt, "read", i)
             THEN Body(t, sn, "OSError", <<>>, {"read"})
             ELSE _restore_pairs_to_config(t, sn, stamp, pairs, flt)
----------------------------------------------------------------------------
(* The top-level operations: try ... return True / except Exception: err(); return False *)

K_LOCAL_DIR == "local_dir"
K_RESTORE_LOCAL_PATH == "restore_local_path"

\* the classes raised in this module; all derive from Exception
Exceptions == {"RuntimeError", "OSError", "FileNotFoundError", "BadZipFile", "URLError"}

NoOp ==
    [op |-> "none", ret |-> "none", escaped |-> "none", log |-> <<>>, failed |-> {},
     entered |-> FALSE]

Outcome(op, ret, escaped, log, body) ==
    [op |-> op, ret |-> ret, escaped |-> escaped, log |-> log, failed |-> body.failed,
     entered |-> body.entered]

\* BAR.py:317/349-352, 477/489-492, 496/529-532
TryExcept(op, body, doneLog, errText) ==
    IF body.exc = "none"
    THEN Outcome(op, "True", "none", body.log \o doneLog, body)
    ELSE IF body.exc \in Exceptions
    THEN Outcome(op, "False", "none", body.log \o <<Err(errText)>>, body)
    ELSE Outcome(op, "none", body.exc, body.log, body)

----------------------------------------------------------------------------
(* do_restore_local: BAR.py:476-492 *)

\* the path the user selected, when one is set
SEL_PATH == "/home/user/selected"

\* Path.suffix
Suffix(name) ==
    IF Len(name) >= 2 /\ ~(Len(name) = 2 /\ name[1] = ".") THEN name[Len(name)] ELSE ""

\* str.lower() on the suffixes of the model
Lower(s) == IF s = ".ZIP" THEN ".zip" ELSE s

NoSource == [kind |-> "missing", name |-> <<>>, tree |-> NoTree]

RestoreLocalBody(t, sn, stamp, path, source, flt) ==
    IF path = ""
    THEN Body(t, sn, "RuntimeError", <<>>, {"source"})
    ELSE IF source.kind = "missing"
    THEN Body(t, sn, "RuntimeError", <<>>, {"source"})
    ELSE IF source.kind = "file" /\ Lower(Suffix(source.name)) = ".zip"
    THEN _extract_zip_to_config(t, sn, stamp, source.tree, flt)
    ELSE _restore_from_folder(t, sn, stamp, source, flt)

do_restore_local ==
    \E b \in {RestoreLocalBody(cfg, snaps, now, settings[K_RESTORE_LOCAL_PATH], src, fault)} :
        /\ cfg' = b.cfg
        /\ snaps' = b.snaps
        /\ last' = TryExcept("do_restore_local", b, <<Info("Local restore complete")>>,
                             "Local restore failed")
        /\ pre' = [cfg |-> cfg, snaps |-> snaps, remote |-> remote]
        /\ UNCHANGED <<now, settings, obs_settings, turn, src, backups, remote, fault, walked, collected>>
----------------------------------------------------------------------------
(* Local backup: BAR.py:136-149 *)

K_GH_TOKEN == "github_token"
K_GH_BRANCH == "github_branch"
K_GH_FOLDER == "github_folder"
K_GH_REPO_SELECT == "github_repo_select"
K_REMOTE_SELECT == "remote_select"

\* hostname()
HOST == "host1"

\* f"obs-config-{hostname()}-{now_stamp()}", a directory name
make_backup_folder_name(stamp) == <<"obs-config-", HOST, "-", now_stamp(stamp)>>

\* BAR.py:145-148: each yielded file is copied to target_root / rel
RECURSIVE CopyFiles(_, _, _, _, _, _)
CopyFiles(t, b, target_root, files, i, flt) ==
    IF i > Len(files)
    THEN [backups |-> b, exc |-> "none", failed |-> {}]
    ELSE With(target_root \o Components(AsPosix(files[i])), LAMBDA dest :
         With(IF \A a \in Ancestors(dest) : Exists(b, a) => IsDir(b, a)
              THEN Copy2(ensure_parent(b, dest), dest, BaseName(files[i]), t[files[i]].data)
              ELSE [tree |-> b, exc |-> "OSError"],
              LAMBDA c :
             IF Fails(flt, "read", i)
             THEN [backups |-> b, exc |-> "OSError", failed |-> {"read"}]
             ELSE IF c.exc # "none" \/ Fails(flt, "write", i)
             THEN [backups |-> b, exc |-> "OSError", failed |-> {"write"}]
             ELSE CopyFiles(t, c.tree, target_root, files, i + 1, flt)))

create_local_backup_folder(t, b, include_logs, include_cache, stamp, flt) ==
    IF Fails(flt, "mkdir", 1) /\ ~Exists(b, <<>>)
    THEN [backups |-> b, exc |-> "OSError", failed |-> {"mkdir"}, walk |-> NoWalk]
    ELSE LET b0 == IF Exists(b, <<>>) THEN b ELSE EmptyDir
             target_root == <<make_backup_folder_name(stamp), OBS_STUDIO>>
         IN  With(iter_obs_files(t, include_logs, include_cache), LAMBDA w :
             IF w.raised
             THEN [backups |-> b0, exc |-> "FileNotFoundError", failed |-> {"config"},
                   walk |-> w]
             ELSE With(CopyFiles(t, b0, target_root, w.files, 1, flt), LAMBDA r :
                  [backups |-> r.backups, exc |-> r.exc, failed |-> r.failed, walk |-> w]))

----------------------------------------------------------------------------
(* The GitHub contents API: BAR.py:214-288.  The repository branch is a
   function from file paths to contents; content 0 stands for an entry that
   is neither a file nor a directory (a symlink or a submodule). *)

\* base64.b64encode and base64.b64decode
B64Encode(data) == <<"base64", data>>
B64Decode(content) == content[2]

RECURSIVE JoinSlash(_)
JoinSlash(ss) ==
    IF ss = <<>> THEN <<>>
    ELSE IF Len(ss) = 1 THEN ss[1]
    ELSE ss[1] \o <<SLASH>> \o JoinSlash(Tail(ss))

\* BAR.py:183-191
_gh_join(parts) ==
    JoinSlash(SelectSeq([i \in 1..Len(parts) |-> Strip(parts[i])], LAMBDA s : s # <<>>))

\* a faulty variant: the file is committed although the request is answered with an error
PutFileCommitsOnError(rem, path_in_repo, content_bytes, fails) ==
    With2(rem, Components(path_in_repo), LAMBDA rv, pv :
        [remote |-> [q \in (DOMAIN rv) \cup {pv} |->
                        IF q = pv THEN B64Decode(B64Encode(content_bytes)) ELSE rv[q]],
         exc |-> IF fails THEN "RuntimeError" ELSE "none"])

\* BAR.py:228-245: one PUT, one commit; an HTTP error is raised as RuntimeError
put_file(rem, path_in_repo, content_bytes, fails) ==
    With2(rem, Components(path_in_repo), LAMBDA rv, pv :
        IF fails
        THEN [remote |-> rv, exc |-> "RuntimeError"]
        ELSE [remote |-> [q \in (DOMAIN rv) \cup {pv} |->
                            IF q = pv THEN B64Decode(B64Encode(content_bytes)) ELSE rv[q]],
              exc |-> "none"])

Item(type, path) == [type |-> type, path |-> path]

\* BAR.py:247-268: the entries of a directory; a single object (the path is a
\* file) as a one-element list; [] on a 404
list_dir(rem, path_in_repo) ==
    With2(rem, Components(path_in_repo), LAMBDA rv, p :
        LET TypeOf(q) == IF q \in DOMAIN rv
                         THEN (IF rv[q] = 0 THEN "symlink" ELSE "file")
                         ELSE "dir"
        IN  IF p \in DOMAIN rv
            THEN <<Item(TypeOf(p), AsPosix(p))>>
            ELSE With(Listing({q[Len(p) + 1] : q \in {x \in DOMAIN rv : IsUnder(x, p)}}),
                      LAMBDA order :
                          [i \in 1..Len(order) |->
                              Item(TypeOf(Append(p, order[i])), AsPosix(Append(p, order[i])))]))

\* BAR.py:270-288
get_file_content_b64(rem, path_in_repo) == B64Encode(rem[Components(path_in_repo)])

----------------------------------------------------------------------------
(* do_backup_now: BAR.py:316-352 *)

PROGRESS_EVERY == 50

\* BAR.py:341-347, one turn of the loop: read, put, count, and a progress
\* notice every 50 files; u is the upload so far
UploadOne(t, u, base_in_repo, files, i, flt) ==
    IF Fails(flt, "read", i)
    THEN [u EXCEPT !.exc = "OSError", !.failed = {"read"}]
    ELSE With(put_file(u.remote, _gh_join(<<base_in_repo, AsPosix(files[i])>>),
                       t[files[i]].data, Fails(flt, "put", i)),
              LAMBDA put :
         IF put.exc # "none"
         THEN [u EXCEPT !.remote = put.remote, !.exc = put.exc, !.failed = {"put"}]
         ELSE [u EXCEPT !.remote = put.remote,
                        !.count = @ + 1,
                        !.log = IF (u.count + 1) % PROGRESS_EVERY = 0
                                THEN Append(@, LogLine("info", "Uploading", u.count + 1))
                                ELSE @])

\* BAR.py:340-347: the turns for files[lo..hi] in order, until one raises (the
\* range is split in two to bound the depth of the evaluation)
RECURSIVE UploadRange(_, _, _, _, _, _, _)
UploadRange(t, u, base_in_repo, files, lo, hi, flt) ==
    IF u.exc # "none" \/ lo > hi THEN u
    ELSE IF lo = hi THEN UploadOne(t, u, base_in_repo, files, lo, flt)
    ELSE With(UploadRange(t, u, base_in_repo, files, lo, (lo + hi) \div 2, flt), LAMBDA u1 :
              UploadRange(t, u1, base_in_repo, files, ((lo + hi) \div 2) + 1, hi, flt))

Upload(t, rem, base_in_repo, files, flt) ==
    UploadRange(t, [remote |-> rem, exc |-> "none", log |-> <<>>, failed |-> {}, count |-> 0],
                base_in_repo, files, 1, Len(files), flt)

BackupOut(b, rem, exc, log, failed, walk) ==
    [backups |-> b, remote |-> rem, exc |-> exc, log |-> log, failed |-> failed,
     walk |-> walk, entered |-> FALSE]

BackupBody(t, b, rem, st, stamp, flt) ==
    IF st[K_DEST_TYPE] = "local"
    THEN With(create_local_backup_folder(t, b, st[K_INCLUDE_LOGS], st[K_INCLUDE_CACHE],
                                         stamp, flt),
              LAMBDA r :
                  BackupOut(r.backups, rem, r.exc,
                            <<Info("Creating local backup")>>
                                \o (IF r.exc = "none" THEN <<Info("Backup created")>> ELSE <<>>),
                            r.failed, r.walk))
    ELSE IF st[K_GH_TOKEN] = "" \/ st[K_GH_REPO_SELECT] = ""
    THEN BackupOut(b, rem, "RuntimeError", <<>>, {"credentials"}, NoWalk)
    ELSE With2(_gh_join(<<st[K_GH_FOLDER], <<make_backup_folder_name(stamp)>>, <<OBS_STUDIO>>>>),
               iter_obs_files(t, st[K_INCLUDE_LOGS], st[K_INCLUDE_CACHE]),
               LAMBDA base_in_repo, w :
         IF w.raised
         THEN BackupOut(b, rem, "FileNotFoundError", <<>>, {"config"}, w)
         ELSE With(Upload(t, rem, base_in_repo, w.files, flt), LAMBDA u :
                  BackupOut(b, u.remote, u.exc,
                            IF u.exc = "none"
                            THEN Append(u.log, LogLine("info", "Upload complete", u.count))
                            ELSE u.log,
                            u.failed, w)))

do_backup_now ==
    \E b \in {BackupBody(cfg, backups, remote, settings, now, fault)} :
        /\ backups' = b.backups
        /\ remote' = b.remote
        /\ walked' = b.walk
        /\ last' = TryExcept("do_backup_now", b, <<>>, "Backup failed")
        /\ pre' = [cfg |-> cfg, snaps |-> snaps, remote |-> remote]
        /\ UNCHANGED <<cfg, snaps, now, settings, obs_settings, turn, src, fault, collected>>

----------------------------------------------------------------------------
(* do_restore_remote: BAR.py:495-532 *)

\* base is the remote root the traversal started from
NoCollect == [pairs |-> <<>>, lists |-> 0, exc |-> "none", failed |-> {}, base |-> <<>>]

\* BAR.py:513-521: the items of one listing, in order
RECURSIVE CollectItems(_, _, _, _, _, _, _)
CollectItems(rem, base, items, k, stack, pairs, flt) ==
    IF k > Len(items)
    THEN [stack |-> stack, pairs |-> pairs, exc |-> "none"]
    ELSE IF items[k].type = "dir"
    THEN With(Append(stack, items[k].path), LAMBDA stack1 :
             CollectItems(rem, base, items, k + 1, stack1, pairs, flt))
    ELSE IF items[k].type = "file"
    THEN IF Fails(flt, "get", Len(pairs) + 1)
         THEN [stack |-> stack, pairs |-> pairs, exc |-> "RuntimeError"]
         ELSE With(Append(pairs,
                          Pair(Slice(items[k].path, StrLen(Strip(base)) + 1),
                               B64Decode(get_file_content_b64(rem, items[k].path)))),
                   LAMBDA pairs1 :
                       CollectItems(rem, base, items, k + 1, stack, pairs1, flt))
    ELSE CollectItems(rem, base, items, k + 1, stack, pairs, flt)

\* BAR.py:507-522: the explicit-stack traversal
RECURSIVE CollectLoop(_, _, _, _, _, _)
CollectLoop(rem, base, stack, pairs, lists, flt) ==
    IF stack = <<>>
    THEN [pairs |-> pairs, lists |-> lists, exc |-> "none", failed |-> {}, base |-> base]
    ELSE IF Fails(flt, "list", lists + 1)
    THEN [pairs |-> pairs, lists |-> lists + 1, exc |-> "RuntimeError", failed |-> {"list"},
          base |-> base]
    ELSE With(list_dir(rem, stack[Len(stack)]), LAMBDA items :
         With(CollectItems(rem, base, items, 1, SubSeq(stack, 1, Len(stack) - 1), pairs, flt),
              LAMBDA r :
             IF r.exc # "none"
             THEN [pairs |-> r.pairs, lists |-> lists + 1, exc |-> r.exc, failed |-> {"get"},
                   base |-> base]
             ELSE CollectLoop(rem, base, r.stack, r.pairs, lists + 1, flt)))

_collect_pairs(rem, base, root_path, flt) == CollectLoop(rem, base, <<root_path>>, <<>>, 0, flt)

\* BAR.py:503-527: from the selection to the overwrite of the config root
RestoreRemoteFrom(t, sn, rem, sel_path, stamp, flt) ==
    With(RStrip(sel_path) \o <<SLASH, OBS_STUDIO>>, LAMBDA base :
    With(_collect_pairs(rem, base, base, flt), LAMBDA c :
        IF c.exc # "none"
        THEN [body |-> Body(t, sn, c.exc, <<>>, c.failed), collect |-> c]
        ELSE IF c.pairs = <<>>
        THEN [body |-> Body(t, sn, "RuntimeError", <<>>, {"empty"}), collect |-> c]
        ELSE [body |-> _restore_pairs_to_config(t, sn, stamp, c.pairs, flt), collect |-> c]))

\* BAR.py:497-502: the selection is read from the settings cache
RestoreRemoteBody(t, sn, rem, st, stamp, flt) ==
    IF st[K_GH_TOKEN] = "" \/ st[K_GH_REPO_SELECT] = "" \/ st[K_REMOTE_SELECT] = <<>>
    THEN [body |-> Body(t, sn, "RuntimeError", <<>>, {"credentials"}), collect |-> NoCollect]
    ELSE RestoreRemoteFrom(t, sn, rem, st[K_REMOTE_SELECT], stamp, flt)

do_restore_remote ==
    \E r \in {RestoreRemoteBody(cfg, snaps, remote, settings, now, fault)} :
        /\ cfg' = r.body.cfg
        /\ snaps' = r.body.snaps
        /\ collected' = r.collect
        /\ last' = TryExcept("do_restore_remote", r.body, <<Info("Remote restore complete")>>,
                             "Remote restore failed")
        /\ pre' = [cfg |-> cfg, snaps |-> snaps, remote |-> remote]
        /\ UNCHANGED <<now, settings, obs_settings, turn, src, backups, remote, fault, walked>>

----------------------------------------------------------------------------
(* script_update: BAR.py:684-697 *)

\* the keys script_update copies from the host's settings into the cache
CopiedKeys ==
    {K_DEST_TYPE, K_LOCAL_DIR, K_INCLUDE_LOGS, K_INCLUDE_CACHE, K_GH_TOKEN, K_GH_REPO_SELECT,
     K_GH_BRANCH, K_GH_FOLDER, K_RESTORE_LOCAL_PATH}

script_update(st, obj) == [k \in DOMAIN st |-> IF k \in CopiedKeys THEN obj[k] ELSE st[k]]
----------------------------------------------------------------------------
(* What every specification starts from *)

NoSnaps == [k \in {} |-> NoTree]
NoFiles == [p \in {} |-> 0]
\* what the last operation started from
NoPre == [cfg |-> NoTree, snaps |-> NoSnaps, remote |-> NoFiles]

\* str(Path.home() / "obs-backups")
HOME_BACKUPS == "/home/user/obs-backups"

\* script_defaults, BAR.py:674-681, and the reads' own defaults
DefaultSettings ==
    [k \in {K_DEST_TYPE, K_LOCAL_DIR, K_INCLUDE_LOGS, K_INCLUDE_CACHE, K_RESTORE_LOCAL_PATH,
             K_GH_TOKEN, K_GH_REPO_SELECT, K_GH_BRANCH, K_GH_FOLDER, K_REMOTE_SELECT} |->
        CASE k = K_DEST_TYPE -> "local"
          [] k = K_LOCAL_DIR -> HOME_BACKUPS
          [] k = K_INCLUDE_LOGS -> FALSE
          [] k = K_INCLUDE_CACHE -> FALSE
          [] k = K_GH_BRANCH -> "main"
          [] k = K_GH_FOLDER -> <<Plain("obs-backups")>>
          [] k = K_REMOTE_SELECT -> <<>>
          [] OTHER -> ""]

\* the variables an operation's inputs are not drawn from
Idle ==
    /\ walked = NoWalk /\ collected = NoCollect /\ last = NoOp /\ pre = NoPre
    /\ pc = "idle"
    /\ obs_settings = settings
    /\ turn = 0

----------------------------------------------------------------------------
(* The walker on its own: every configuration tree over WalkFiles *)

WalkFiles ==
    { <<WithExt("global", ".ini")>>,
      <<Plain("logs"), WithExt("l", ".txt")>>,
      <<Plain("cache"), Plain("sub"), WithExt("c", ".bin")>>,
      <<Plain("crashes"), WithExt("d", ".dmp")>>,
      <<Plain("plugin_config"), WithExt("p", ".json")>>,
      <<Plain("plugin_config"), Plain("cef_cache"), WithExt("k", ".bin")>>,
      <<Plain("basic"), Plain("logs"), WithExt("n", ".txt")>>,
      <<Plain("basic"), WithExt("s", ".tmp")>>,
      <<Plain("basic"), WithExt("y", ".lock")>>,
      <<Plain("basic"), WithExt("scene", ".json")>>,
      <<Dotted("git"), Plain("sub"), Plain("HEAD")>> }

WalkTrees == {NoTree} \cup {TreeOfFiles([p \in S |-> 1]) : S \in SUBSET WalkFiles}

InitWalk ==
    /\ cfg \in WalkTrees
    /\ \E logs \in BOOLEAN, cache \in BOOLEAN :
           settings = [DefaultSettings EXCEPT ![K_INCLUDE_LOGS] = logs,
                                              ![K_INCLUDE_CACHE] = cache]
    /\ snaps = NoSnaps /\ now = 0 /\ src = NoSource /\ backups = NoTree
    /\ remote = NoFiles /\ fault = NoFault
    /\ Idle

IterObsFiles ==
    /\ pc = "idle"
    /\ pc' = "done"
    /\ walked' = iter_obs_files(cfg, settings[K_INCLUDE_LOGS], settings[K_INCLUDE_CACHE])
    /\ UNCHANGED <<cfg, snaps, now, settings, obs_settings, turn, src, backups, remote, fault, collected, last, pre>>

NextWalk == IterObsFiles

SpecWalk == InitWalk /\ [][NextWalk]_vars

WalkDone == walked.called /\ ~walked.raised

\* how often the walk yielded path p
TimesYielded(p) == Cardinality({i \in 1..Len(walked.files) : walked.files[i] = p})

\* the directories the walk looked at: the children of the directories it walked
Examined == {d \in DirsOf(cfg) : d # <<>> /\ Parent(d) \in walked.visited}

(* C4: for each of the four includeLogs/includeCache combinations the walk
   yields no file whose relative path lies under a directory of the active
   exclusion set; with includeCache the set holds neither cache nor
   plugin_config/cef_cache; crashes is always in it and logs is in it exactly
   when includeLogs is false. *)
C4_ExcludedSubtreesAbsent ==
    WalkDone =>
        /\ \A i \in 1..Len(walked.files) : \A ex \in walked.excludes :
                ~IsUnder(walked.files[i], Components(ex))
        /\ settings[K_INCLUDE_CACHE] =>
                EX_CACHE \notin walked.excludes /\ EX_CEF_CACHE \notin walked.excludes
        /\ EX_CRASHES \in walked.excludes
        /\ (EX_LOGS \in walked.excludes) <=> ~settings[K_INCLUDE_LOGS]

\* caches included and logs not: a cache file is yielded although the tree
\* also holds files under logs, crashes and both cache directories
C4_Witness ==
    /\ WalkDone
    /\ settings[K_INCLUDE_CACHE] /\ ~settings[K_INCLUDE_LOGS]
    /\ \A ex \in {EX_LOGS, EX_CRASHES, EX_CACHE, EX_CEF_CACHE} :
            \E f \in FilesOf(cfg) : IsUnder(f, Components(ex))
    /\ \E i \in 1..Len(walked.files) : IsUnder(walked.files[i], Components(EX_CEF_CACHE))
    /\ \E i \in 1..Len(walked.files) : IsUnder(walked.files[i], Components(EX_CACHE))

\* every file of a walked directory that is no .tmp or .lock file is yielded once
WalkedFilesYieldedOnce ==
    \A f \in FilesOf(cfg) :
        (Parent(f) \in walked.visited
            /\ ~(EndsWith(BaseName(f), ".tmp") \/ EndsWith(BaseName(f), ".lock")))
        => TimesYielded(f) = 1

(* C9 as stated: a directory the walk looks at is pruned if and only if its
   name starts with "." or its path relative to ConfigRoot equals, or lies
   under, an entry of the active exclusion set; every file of a walked
   directory whose name does not end in .tmp or .lock is yielded exactly
   once. *)
C9_PrunedIffHiddenOrExcludedPath ==
    WalkDone =>
        /\ \A d \in Examined :
                d \in walked.pruned <=>
                    \/ StartsWithDot(BaseName(d))
                    \/ \E ex \in walked.excludes :
                            d = Components(ex) \/ IsUnder(d, Components(ex))
        /\ WalkedFilesYieldedOnce

(* C9 amended: a directory the walk looks at is pruned if and only if its
   name starts with ".", or its relative path equals or lies under an entry
   of the active exclusion set, or its bare name equals an entry (at any
   depth); every file of a walked directory whose name does not end in .tmp
   or .lock is yielded exactly once. *)
C9_PrunedIffHiddenOrExcludedPathOrName ==
    WalkDone =>
        /\ \A d \in Examined :
                d \in walked.pruned <=>
                    \/ StartsWithDot(BaseName(d))
                    \/ \E ex \in walked.excludes :
                            \/ d = Components(ex)
                            \/ IsUnder(d, Components(ex))
                            \/ <<BaseName(d)>> = Components(ex)
        /\ WalkedFilesYieldedOnce

\* basic/logs is pruned by its name alone, a hidden directory is pruned, and
\* basic is walked with its .tmp and .lock files skipped
C9_Witness ==
    /\ WalkDone
    /\ <<Plain("basic"), Plain("logs")>> \in walked.pruned
    /\ <<Dotted("git")>> \in walked.pruned
    /\ <<Plain("basic")>> \in walked.visited
    /\ TimesYielded(<<Plain("basic"), WithExt("scene", ".json")>>) = 1
    /\ IsFile(cfg, <<Plain("basic"), WithExt("s", ".tmp")>>)
    /\ IsFile(cfg, <<Plain("basic"), WithExt("y", ".lock")>>)
    /\ TimesYielded(<<Plain("basic"), WithExt("s", ".tmp")>>) = 0

----------------------------------------------------------------------------
(* One local restore, from every source shape into every config tree *)

F_GLOBAL == <<WithExt("global", ".ini")>>
F_SCENE == <<Plain("basic"), WithExt("scene", ".json")>>
F_EXTRA == <<Plain("basic"), WithExt("extra", ".json")>>

Data == 1..MaxData

\* every assignment of contents to every subset of the files S
FileMaps(S) == UNION {[T -> Data] : T \in SUBSET S}

\* the config trees: absent, empty, files among three, and one in which
\* basic is a file
RestoreCfgTrees ==
    {NoTree}
    \cup {TreeOfFiles(f) : f \in FileMaps({F_GLOBAL, F_SCENE, F_EXTRA})}
    \cup {TreeOfFiles([p \in {<<Plain("basic")>>} |-> 1])}

\* what a bundle holds below its obs-studio directory
BundleTrees == {TreeOfFiles(f) : f \in FileMaps({F_GLOBAL, F_SCENE})}

Wrap(dirs, b) == Graft(TreeOfFiles([p \in {Append(dirs, Plain("x"))} |-> 1]), dirs, b)
\* b below the directories dirs, and nothing else
Below(dirs, b) == RemoveSubtree(Wrap(dirs, b), Append(dirs, Plain("x")))

D_HOST1 == Plain("obs-config-host1")
D_HOST2 == Plain("obs-config-host2")
BK == Plain("bk")

FolderSources ==
    \* <folder>/obs-studio/...
    {[kind |-> "dir", name |-> BK, tree |-> Below(<<OBS_STUDIO>>, b)] : b \in BundleTrees}
    \* a folder named obs-studio
    \cup {[kind |-> "dir", name |-> OBS_STUDIO, tree |-> b] : b \in BundleTrees}
    \* <folder>/<one subfolder>/obs-studio/...
    \cup {[kind |-> "dir", name |-> BK, tree |-> Below(<<D_HOST1, OBS_STUDIO>>, b)] :
            b \in BundleTrees}
    \* no obs-studio anywhere
    \cup {[kind |-> "dir", name |-> BK, tree |-> b] : b \in BundleTrees}
    \* obs-studio two levels down
    \cup {[kind |-> "dir", name |-> BK, tree |-> Below(<<D_HOST1, D_HOST2, OBS_STUDIO>>, b)] :
            b \in BundleTrees}
    \* a folder named obs-studio whose one subfolder holds obs-studio
    \cup {[kind |-> "dir", name |-> OBS_STUDIO, tree |-> Below(<<D_HOST1, OBS_STUDIO>>, b)] :
            b \in BundleTrees}
    \* two subfolders that hold obs-studio
    \cup {[kind |-> "dir", name |-> BK,
           tree |-> Graft(Below(<<D_HOST1, OBS_STUDIO>>, b), <<D_HOST2>>,
                          Below(<<OBS_STUDIO>>, TreeOfFiles([p \in {F_GLOBAL} |-> 1])))] :
            b \in BundleTrees}

ZIP_NAME == WithExt("bk", ".zip")

FileSources ==
    {[kind |-> "file", name |-> ZIP_NAME, tree |-> Below(<<OBS_STUDIO>>, b)] : b \in BundleTrees}
    \cup {[kind |-> "file", name |-> ZIP_NAME, tree |-> b] : b \in BundleTrees}
    \cup {[kind |-> "file", name |-> WithExt("bk", ".ZIP"),
           tree |-> Below(<<OBS_STUDIO>>, TreeOfFiles([p \in {F_SCENE} |-> 1]))],
          [kind |-> "file", name |-> WithExt("notes", ".txt"), tree |-> NoTree]}

RestoreSources == {NoSource} \cup FolderSources \cup FileSources

FaultAt == {1, 2}
RestoreFaults ==
    {NoFault}
    \cup {[step |-> s, at |-> 1] : s \in {"mkdir", "snapshot"}}
    \cup {[step |-> s, at |-> k] : s \in {"read", "delete", "write"}, k \in FaultAt}

InitRestore ==
    /\ cfg \in RestoreCfgTrees
    /\ src \in RestoreSources
    /\ fault \in RestoreFaults
    /\ \E path \in {"", SEL_PATH} :
           /\ path = "" => src = NoSource /\ fault = NoFault
           /\ settings = [DefaultSettings EXCEPT ![K_RESTORE_LOCAL_PATH] = path]
    /\ snaps = NoSnaps /\ now = 0 /\ backups = NoTree /\ remote = NoFiles
    /\ Idle

RestoreLocal ==
    /\ pc = "idle"
    /\ pc' = "done"
    /\ do_restore_local

NextRestore == RestoreLocal

SpecRestore == InitRestore /\ [][NextRestore]_vars

RestoreDone == pc = "done" /\ last.op = "do_restore_local"

\* the snapshot directories the last operation created
NewSnapshots == (DOMAIN snaps) \ (DOMAIN pre.snaps)

(* C2 as stated, on runs in which no step is made to fail: a restore that
   reaches the overwrite step creates exactly one snapshot directory beside
   ConfigRoot if ConfigRoot existed when it was invoked, and none if it did
   not. *)
C2_OneSnapshotIffConfigExisted ==
    (RestoreDone /\ last.entered /\ fault = NoFault) =>
        IF Exists(pre.cfg, <<>>)
        THEN Cardinality(NewSnapshots) = 1
        ELSE NewSnapshots = {}

\* the selected folder has one of the three accepted shapes
HolderDirs(tree) == {d \in Entries(tree, <<>>) : IsDir(tree, <<d, OBS_STUDIO>>)}
AcceptedShape(source) ==
    \/ IsDir(source.tree, <<OBS_STUDIO>>)
    \/ source.name = OBS_STUDIO
    \/ Cardinality(HolderDirs(source.tree)) = 1

(* C6 as stated, on runs in which no step is made to fail: when the selected
   folder has none of the accepted shapes (it holds no obs-studio/, is not
   named obs-studio, and does not hold exactly one subfolder that holds
   obs-studio/), do_restore_local returns False and ConfigRoot is as it was. *)
C6_InvalidFolderRejected ==
    (RestoreDone /\ src.kind = "dir" /\ fault = NoFault
        /\ settings[K_RESTORE_LOCAL_PATH] # "" /\ ~AcceptedShape(src)) =>
        last.ret = "False" /\ cfg = pre.cfg

\* where the bundle's obs-studio directory is in a source of an accepted
\* shape: the zip's or folder's obs-studio/, else the folder named obs-studio
\* itself, else the obs-studio/ of its one subfolder
IsZip(source) == source.kind = "file" /\ Suffix(source.name) \in {".zip", ".ZIP"}
HasBundle(source) ==
    IF IsZip(source) THEN IsDir(source.tree, <<OBS_STUDIO>>)
    ELSE source.kind = "dir" /\ AcceptedShape(source)
BundleRoot(source) ==
    IF IsDir(source.tree, <<OBS_STUDIO>>) THEN <<OBS_STUDIO>>
    ELSE IF source.name = OBS_STUDIO THEN <<>>
    ELSE <<CHOOSE d \in HolderDirs(source.tree) : TRUE, OBS_STUDIO>>
BundleFiles(source) == {p \in FilesOf(source.tree) : IsUnder(p, BundleRoot(source))}

(* C7: when do_restore_local returns True for a zip that holds obs-studio/ or
   a folder of an accepted shape (obs-studio/ inside it, the folder named
   obs-studio, or obs-studio/ one level down in its only such subfolder),
   every file at obs-studio/<rel> of the bundle is a file at
   <ConfigRoot>/<rel> with the same bytes. *)
C7_BundlePrefixStripped ==
    (RestoreDone /\ last.ret = "True" /\ HasBundle(src)) =>
        \A p \in BundleFiles(src) :
            LET rel == RelativeTo(p, BundleRoot(src))
            IN  IsFile(cfg, rel) /\ cfg[rel].data = src.tree[p].data

\* a zip with obs-studio/basic/scene.json and a folder with
\* <subfolder>/obs-studio/basic/scene.json, restored over a different scene.json
C7_WitnessZip ==
    /\ RestoreDone /\ last.ret = "True" /\ IsZip(src)
    /\ IsFile(src.tree, <<OBS_STUDIO>> \o F_SCENE)
    /\ IsFile(pre.cfg, F_SCENE)
    /\ pre.cfg[F_SCENE].data # src.tree[<<OBS_STUDIO>> \o F_SCENE].data
    /\ cfg[F_SCENE].data = src.tree[<<OBS_STUDIO>> \o F_SCENE].data
C7_WitnessFolder ==
    /\ RestoreDone /\ last.ret = "True" /\ src.kind = "dir"
    /\ IsFile(src.tree, <<D_HOST1, OBS_STUDIO>> \o F_SCENE)
    /\ IsFile(pre.cfg, F_SCENE)
    /\ pre.cfg[F_SCENE].data # src.tree[<<D_HOST1, OBS_STUDIO>> \o F_SCENE].data
    /\ cfg[F_SCENE].data = src.tree[<<D_HOST1, OBS_STUDIO>> \o F_SCENE].data
    /\ ~IsFile(cfg, <<D_HOST1, OBS_STUDIO>> \o F_SCENE)

\* what the shared overwrite pass makes of the config tree the restore started
\* from, given the bundle's (relative path, bytes) pairs
PairsOfBundle(source) == CollectFolderPairs(source.tree, BundleRoot(source))
SharedPass(source) ==
    ApplyPairs(IF Exists(pre.cfg, <<>>) THEN pre.cfg ELSE EmptyDir,
               PairsOfBundle(source), 1, NoFault)

(* C10 as stated, on runs in which no step is made to fail and the shared
   pass can write every pair: restoring from a zip of a bundle leaves
   ConfigRoot as the shared per-pair overwrite of the bundle's
   (relativePath, bytes) pairs would: only the destination of each pair is
   replaced, and the files of ConfigRoot that no pair names are kept. *)
C10_ZipEqualsSharedPass ==
    (RestoreDone /\ IsZip(src) /\ HasBundle(src) /\ fault = NoFault /\ last.ret = "True"
        /\ SharedPass(src).exc = "none") =>
        /\ cfg = SharedPass(src).cfg
        /\ \A f \in FilesOf(pre.cfg) :
               (\A i \in 1..Len(PairsOfBundle(src)) :
                    f # Components(PairsOfBundle(src)[i].rel))
               => IsFile(cfg, f) /\ cfg[f] = pre.cfg[f]
----------------------------------------------------------------------------
(* Local backup followed by a local restore of the bundle it produced *)

F_LOG == <<Plain("logs"), WithExt("obs", ".txt")>>
F_CACHE == <<Plain("cache"), WithExt("c", ".bin")>>
F_TMP == <<Plain("basic"), WithExt("scene", ".tmp")>>
F_DEEP == <<Plain("basic"), Plain("scenes"), WithExt("main", ".json")>>

RoundTripFiles == {F_GLOBAL, F_DEEP, F_LOG, F_CACHE, F_TMP}

\* every tree over a subset of RoundTripFiles, and an absent ConfigRoot
RoundTripTrees ==
    {NoTree}
    \cup UNION {{TreeOfFiles(f) : f \in FileMaps(S)} : S \in SUBSET RoundTripFiles}

\* a bundle of an earlier backup, under the name of an earlier second
OLD_BUNDLE == <<"obs-config-", HOST, "-", "20240101-000000">>

BackupDirs ==
    {NoTree, EmptyDir,
     TreeOfFiles([p \in {<<OLD_BUNDLE, OBS_STUDIO>> \o F_LOG} |-> 1])}

InitRoundTrip ==
    /\ cfg \in RoundTripTrees
    /\ \E logs \in BOOLEAN, cache \in BOOLEAN :
           settings = [DefaultSettings EXCEPT ![K_INCLUDE_LOGS] = logs,
                                              ![K_INCLUDE_CACHE] = cache]
    /\ backups \in BackupDirs
    /\ snaps = NoSnaps /\ now = 0 /\ src = NoSource
    /\ remote = NoFiles /\ fault = NoFault
    /\ Idle

BackupLocal ==
    /\ pc = "idle"
    /\ pc' = "backed"
    /\ do_backup_now

\* the user takes the bundle to a machine whose ConfigRoot is absent or empty
\* and selects it as the restore source
NewMachine ==
    /\ pc = "backed"
    /\ pc' = "fresh"
    /\ cfg' \in {NoTree, EmptyDir}
    /\ LET bundle == <<make_backup_folder_name(now)>>
       IN  src' = IF IsDir(backups, bundle)
                  THEN [kind |-> "dir", name |-> bundle[1], tree |-> Subtree(backups, bundle)]
                  ELSE NoSource
    /\ settings' = [settings EXCEPT ![K_RESTORE_LOCAL_PATH] = SEL_PATH]
    /\ obs_settings' = settings'
    /\ now' = now + 1
    /\ UNCHANGED <<snaps, backups, remote, fault, walked, collected, last, pre, turn>>

RestoreBundle ==
    /\ pc = "fresh"
    /\ pc' = "done"
    /\ do_restore_local

NextRoundTrip == BackupLocal \/ NewMachine \/ RestoreBundle

SpecRoundTrip == InitRoundTrip /\ [][NextRoundTrip]_vars

(* C1: after a local backup and a restore of the produced bundle into an
   empty or absent ConfigRoot, the files of ConfigRoot are exactly the files
   the walker yielded at backup time, each with the bytes it had then. *)
C1_RoundTrip ==
    (pc = "done" /\ last.op = "do_restore_local") =>
        /\ FilesOf(cfg) = Range(walked.files)
        /\ \A p \in FilesOf(cfg) : cfg[p].data = walked.tree[p].data

C1_Witness ==
    /\ pc = "done" /\ last.op = "do_restore_local" /\ last.ret = "True"
    /\ {F_GLOBAL, F_DEEP} \subseteq FilesOf(cfg)
    /\ cfg[F_GLOBAL].data # cfg[F_DEEP].data
    /\ F_LOG \in FilesOf(walked.tree) /\ F_LOG \notin FilesOf(cfg)
    /\ F_TMP \in FilesOf(walked.tree)
----------------------------------------------------------------------------
(* Remote backup, with the upload of one file made to fail *)

MaxUpload == 52

Digits == <<"0", "1", "2", "3", "4", "5", "6", "7", "8", "9">>

\* the i-th scene collection of a large configuration, 1 <= i <= 99
BulkFile(i) ==
    <<Plain("basic"), <<"scene", Digits[(i \div 10) + 1], Digits[(i % 10) + 1], ".json">>>>

\* n scene collections, a log and a temporary file
BulkTree(n) ==
    TreeOfFiles([p \in {BulkFile(i) : i \in 1..n} \cup {F_LOG, F_TMP} |->
                    IF p \in {F_LOG, F_TMP} THEN 1
                    ELSE 1 + ((CHOOSE i \in 1..n : BulkFile(i) = p) % MaxData)])

UploadFaults ==
    {NoFault}
    \cup {[step |-> "put", at |-> k] : k \in 1..MaxUpload}
    \cup {[step |-> "read", at |-> k] : k \in FaultAt}

\* the github_folder values: the default, one written with slashes, none
GhFolders == {<<Plain("obs-backups")>>, <<SLASH, Plain("obs-backups"), SLASH>>, <<>>}

\* an earlier upload
OLD_UPLOAD == <<Plain("obs-backups"), OLD_BUNDLE, OBS_STUDIO>> \o F_GLOBAL

InitUpload ==
    /\ cfg \in {NoTree} \cup {BulkTree(n) : n \in 0..MaxUpload}
    /\ fault \in UploadFaults
    /\ \E token \in {"", "ghp"}, folder \in GhFolders :
           /\ (token = "" \/ folder # <<Plain("obs-backups")>>) =>
                  (fault.at <= 2 /\ cfg \in {NoTree, BulkTree(0), BulkTree(2)})
           /\ settings = [DefaultSettings EXCEPT ![K_DEST_TYPE] = "github",
                                                 ![K_GH_TOKEN] = token,
                                                 ![K_GH_REPO_SELECT] = "user/obs",
                                                 ![K_GH_FOLDER] = folder]
    /\ remote \in {NoFiles, [p \in {OLD_UPLOAD} |-> 1]}
    /\ snaps = NoSnaps /\ now = 0 /\ src = NoSource /\ backups = NoTree
    /\ Idle

BackupRemote ==
    /\ pc = "idle"
    /\ pc' = "done"
    /\ do_backup_now

NextUpload == BackupRemote

SpecUpload == InitUpload /\ [][NextUpload]_vars

\* the k-th put_file call of the last backup failed
PutFailedAt(k) ==
    /\ pc = "done" /\ last.op = "do_backup_now"
    /\ fault = [step |-> "put", at |-> k]
    /\ last.failed = {"put"}

\* the repository paths committed by the last backup
Committed == (DOMAIN remote) \ (DOMAIN pre.remote)

\* the path in the repository of the i-th file the walker yielded
RepoPathOf(i) ==
    Components(settings[K_GH_FOLDER]) \o <<make_backup_folder_name(now), OBS_STUDIO>>
        \o walked.files[i]

\* the first k - 1 files stand in the repository with their bytes, each a
\* commit of its own, and nothing else was committed
FirstCommitted(k) ==
    /\ Committed = {RepoPathOf(i) : i \in 1..(k - 1)}
    /\ Cardinality(Committed) = k - 1
    /\ \A i \in 1..(k - 1) : remote[RepoPathOf(i)] = cfg[walked.files[i]].data
    /\ \A p \in DOMAIN pre.remote : remote[p] = pre.remote[p]

\* the count of the last progress notice logged, 0 when none was logged
RECURSIVE LastProgress(_)
LastProgress(log) ==
    IF log = <<>> THEN 0
    ELSE IF log[Len(log)].msg = "Uploading" THEN log[Len(log)].n
    ELSE LastProgress(SubSeq(log, 1, Len(log) - 1))

ErrorLogged == \E i \in 1..Len(last.log) : last.log[i].level = "error"

(* C5 as stated: when the k-th put_file call fails the repository holds
   exactly the first k - 1 files, the operation returns False, and the count
   of the last progress notice equals the number of files committed. *)
C5_ProgressCountIsCommitted ==
    \A k \in 1..MaxUpload :
        PutFailedAt(k) =>
            /\ FirstCommitted(k)
            /\ last.ret = "False"
            /\ LastProgress(last.log) = k - 1

(* C5 amended: when the k-th put_file call fails the repository holds
   exactly the first k - 1 files, the operation returns False and logs an
   error, and the last progress notice carries the largest multiple of 50
   that is at most k - 1 (there is no notice when k - 1 is below 50). *)
C5_ProgressCountIsLastFifty ==
    \A k \in 1..MaxUpload :
        PutFailedAt(k) =>
            /\ FirstCommitted(k)
            /\ last.ret = "False"
            /\ ErrorLogged
            /\ LastProgress(last.log) = 50 * ((k - 1) \div 50)

C5_Witness ==
    /\ PutFailedAt(52)
    /\ Cardinality(Committed) = 51
    /\ LastProgress(last.log) = 50
    /\ last.ret = "False"
----------------------------------------------------------------------------
(* The remote traversal and restore, applied to a selected remote directory *)

REPO_FOLDER == Plain("obs-backups")
BUNDLE == make_backup_folder_name(0)
\* the remote root of the bundle
REMOTE_ROOT == <<REPO_FOLDER, BUNDLE, OBS_STUDIO>>

\* a file beside the remote root, and a file of another bundle
R_NOTES == <<REPO_FOLDER, BUNDLE, WithExt("notes", ".txt")>>

\* contents of the repository: 0 is a symlink entry, the others are files
RemoteData == 0..MaxData

RemoteTrees ==
    {[p \in {REMOTE_ROOT} |-> 1]}
    \cup UNION {
           UNION {{[p \in {REMOTE_ROOT \o q : q \in DOMAIN f} \cup extra |->
                      IF p \in extra THEN 1 ELSE f[RelativeTo(p, REMOTE_ROOT)]] :
                   f \in [S -> RemoteData]} :
                  S \in SUBSET {F_GLOBAL, F_DEEP}} :
           extra \in SUBSET {R_NOTES, OLD_UPLOAD}}

\* the selected directory, as listed, and written with trailing slashes; and
\* a directory that holds no bundle
SelPaths ==
    {AsPosix(<<REPO_FOLDER, BUNDLE>>),
     AsPosix(<<REPO_FOLDER, BUNDLE>>) \o <<SLASH>>,
     AsPosix(<<REPO_FOLDER, BUNDLE>>) \o <<SLASH, SLASH>>,
     AsPosix(<<REPO_FOLDER, Plain("empty")>>)}

CollectFaults ==
    {NoFault}
    \cup {[step |-> s, at |-> k] : s \in {"list", "get", "write"}, k \in FaultAt}
    \cup {[step |-> "snapshot", at |-> 1]}

InitCollect ==
    /\ remote \in RemoteTrees
    /\ cfg \in {NoTree, EmptyDir, TreeOfFiles([p \in {F_GLOBAL, F_EXTRA} |-> 1])}
    /\ fault \in CollectFaults
    /\ settings = [DefaultSettings EXCEPT ![K_DEST_TYPE] = "github",
                                          ![K_GH_TOKEN] = "ghp",
                                          ![K_GH_REPO_SELECT] = "user/obs"]
    /\ snaps = NoSnaps /\ now = 0 /\ src = NoSource /\ backups = NoTree
    /\ Idle

\* BAR.py:503-532 for a selection sel_path
RestoreRemoteSelected ==
    /\ pc = "idle"
    /\ pc' = "done"
    /\ \E sel_path \in SelPaths :
           \E r \in {RestoreRemoteFrom(cfg, snaps, remote, sel_path, now, fault)} :
               /\ cfg' = r.body.cfg
               /\ snaps' = r.body.snaps
               /\ collected' = r.collect
               /\ last' = TryExcept("restore_remote_selected", r.body,
                                    <<Info("Remote restore complete")>>,
                                    "Remote restore failed")
    /\ pre' = [cfg |-> cfg, snaps |-> snaps, remote |-> remote]
    /\ UNCHANGED <<now, settings, obs_settings, turn, src, backups, remote, fault, walked>>

NextCollect == RestoreRemoteSelected

SpecCollect == InitCollect /\ [][NextCollect]_vars

\* the files of the repository below the remote root of the last traversal
RemoteFiles ==
    {p \in DOMAIN remote : IsUnder(p, Components(collected.base)) /\ remote[p] # 0}

(* C8 as stated, on runs in which no request is made to fail: a remote
   restore of a selected directory ends with exactly one collected pair per
   file below <selected>/obs-studio, carrying the file's path relative to
   that root and its decoded bytes, and fails when there is no such file. *)
C8_OnePairPerRemoteFile ==
    (pc = "done" /\ last.op = "restore_remote_selected" /\ fault = NoFault) =>
        /\ Len(collected.pairs) = Cardinality(RemoteFiles)
        /\ Range(collected.pairs) =
               {Pair(AsPosix(RelativeTo(p, Components(collected.base))), remote[p]) :
                   p \in RemoteFiles}
        /\ (RemoteFiles = {} => last.ret = "False")
----------------------------------------------------------------------------
(* The script: the host updates the settings, then runs one operation *)

\* the settings the host can pass to script_update
SettingsObjs ==
    {[DefaultSettings EXCEPT ![K_DEST_TYPE] = dest, ![K_GH_TOKEN] = token,
                             ![K_GH_REPO_SELECT] = repo, ![K_RESTORE_LOCAL_PATH] = path,
                             ![K_REMOTE_SELECT] = sel] :
        dest \in {"local", "github"}, token \in {"", "ghp"}, repo \in {"user/obs"},
        path \in {"", SEL_PATH}, sel \in {<<>>, AsPosix(<<REPO_FOLDER, BUNDLE>>)}}

\* the restore sources, with one content per file
OpsSources == {s \in RestoreSources : \A p \in FilesOf(s.tree) : s.tree[p].data = 1}

OpsRemotes ==
    {NoFiles,
     [p \in {REMOTE_ROOT} |-> 1],
     [p \in {REMOTE_ROOT \o F_GLOBAL, REMOTE_ROOT \o F_DEEP} |-> 1]}

OpsFaults ==
    RestoreFaults
    \cup {[step |-> s, at |-> 1] : s \in {"put", "list", "get"}}

Init ==
    /\ cfg \in {NoTree, EmptyDir, TreeOfFiles([p \in {F_GLOBAL, F_EXTRA} |-> 1])}
    /\ src \in OpsSources
    /\ remote \in OpsRemotes
    /\ fault \in OpsFaults
    /\ settings = DefaultSettings
    /\ snaps = NoSnaps /\ now = 0 /\ backups = NoTree
    /\ Idle

ScriptUpdate ==
    /\ pc = "idle"
    /\ \E obj \in SettingsObjs :
           /\ obs_settings' = obj
           /\ settings' = script_update(settings, obj)
    /\ UNCHANGED <<cfg, snaps, now, src, backups, remote, fault, walked, collected, last,
                   pre, pc, turn>>

BackupNow ==
    /\ pc = "idle"
    /\ pc' = "done"
    /\ do_backup_now

RestoreLocalNow ==
    /\ pc = "idle"
    /\ pc' = "done"
    /\ do_restore_local

RestoreRemoteNow ==
    /\ pc = "idle"
    /\ pc' = "done"
    /\ do_restore_remote

Next == ScriptUpdate \/ BackupNow \/ RestoreLocalNow \/ RestoreRemoteNow

Spec == Init /\ [][Next]_vars

\* the folder selected for the last local restore has none of the accepted shapes
InvalidSource ==
    /\ last.op = "do_restore_local"
    /\ settings[K_RESTORE_LOCAL_PATH] # ""
    /\ src.kind = "dir" /\ ~AcceptedShape(src)

(* C3 as stated, on runs in which the environment makes no step fail: no
   exception escapes do_backup_now, do_restore_local or do_restore_remote; an
   operation whose source is invalid or one of whose steps failed logs an
   error and returns False; it returns True only when every step completed. *)
C3_FalseOnEveryFailure ==
    (pc = "done" /\ fault = NoFault) =>
        /\ last.escaped = "none"
        /\ last.ret \in {"True", "False"}
        /\ (last.failed # {} \/ InvalidSource) => (last.ret = "False" /\ ErrorLogged)
        /\ last.ret = "True" => (last.failed = {} /\ ~InvalidSource)

\* the keys the operations read from the settings cache: BAR.py:319-321, 325,
\* 328-331, 357-360, 478 and 497-500
ReadKeys ==
    {K_DEST_TYPE, K_INCLUDE_LOGS, K_INCLUDE_CACHE, K_LOCAL_DIR, K_GH_TOKEN,
     K_GH_REPO_SELECT, K_GH_BRANCH, K_GH_FOLDER, K_RESTORE_LOCAL_PATH, K_REMOTE_SELECT}

\* script_update has been called with the settings OBS holds
Updated == obs_settings \in SettingsObjs

\* a token, a repository and a remote backup path are selected in the settings
RemoteSelected ==
    /\ obs_settings[K_GH_TOKEN] # "" /\ obs_settings[K_GH_REPO_SELECT] # ""
    /\ obs_settings[K_REMOTE_SELECT] # <<>>

RestoreRemoteDone == pc = "done" /\ last.op = "do_restore_remote"

(* C12 as stated: after script_update(settings) every key the operations
   read from the settings cache holds the value of that key in settings, and
   once a token, a repository and a remote backup path are selected in the
   settings do_restore_remote passes its credentials/selection check and
   goes on to the remote traversal. *)
C12_CacheHoldsSettings ==
    Updated =>
        /\ \A k \in ReadKeys : settings[k] = obs_settings[k]
        /\ (RestoreRemoteDone /\ RemoteSelected) =>
               ("credentials" \notin last.failed /\ collected.lists >= 1)

\* what script_update does establish: the nine keys it copies
CacheHoldsCopiedKeys == Updated => \A k \in CopiedKeys : settings[k] = obs_settings[k]

\* the selection check of do_restore_remote fails whatever is selected
RemoteRestoreNeverPasses ==
    RestoreRemoteDone => ("credentials" \in last.failed /\ last.ret = "False")
----------------------------------------------------------------------------
(* Two local restores in a row, the clock ticking between them or not *)

\* the clock runs from second 0 to second MaxNow
MaxNow == 2

\* bundles in a folder and in a zip, under obs-studio/
SnapshotSources ==
    {s \in FolderSources \cup FileSources :
        /\ s.name \in {BK, ZIP_NAME}
        /\ IsDir(s.tree, <<OBS_STUDIO>>)
        /\ \A p \in FilesOf(s.tree) : s.tree[p].data = 1}

SnapshotFaults == {NoFault, [step |-> "snapshot", at |-> 1], [step |-> "write", at |-> 1]}

\* ConfigRoot exists from the start, so that every restore finds it
InitSnapshots ==
    /\ cfg \in {TreeOfFiles(f) : f \in FileMaps({F_GLOBAL, F_SCENE})}
    /\ src \in SnapshotSources
    /\ fault \in SnapshotFaults
    /\ settings = [DefaultSettings EXCEPT ![K_RESTORE_LOCAL_PATH] = SEL_PATH]
    /\ snaps = NoSnaps /\ now = 0 /\ backups = NoTree /\ remote = NoFiles
    /\ Idle

\* datetime.now() moves on by a second
Tick ==
    /\ pc \in {"idle", "restored"}
    /\ now < MaxNow
    /\ now' = now + 1
    /\ UNCHANGED <<cfg, snaps, settings, obs_settings, turn, src, backups, remote, fault, walked,
                   collected, last, pre, pc>>

FirstRestore ==
    /\ pc = "idle"
    /\ pc' = "restored"
    /\ do_restore_local

SecondRestore ==
    /\ pc = "restored"
    /\ pc' = "done"
    /\ do_restore_local

NextSnapshots == Tick \/ FirstRestore \/ SecondRestore

SpecSnapshots == InitSnapshots /\ [][NextSnapshots]_vars

(* C13 as stated: a restore never deletes or replaces a pre-restore snapshot
   made by an earlier restore; after the second restore the snapshot the
   first one took of the existing ConfigRoot still exists with the contents
   it was created with. *)
C13_EarlierSnapshotsKept ==
    pc = "done" =>
        \A k \in DOMAIN pre.snaps : k \in DOMAIN snaps /\ snaps[k] = pre.snaps[k]

\* what the code does keep: the snapshots whose name carries another second
\* than the one of the restore
SnapshotsOfOtherSecondsKept ==
    pc = "done" =>
        \A k \in (DOMAIN pre.snaps) \ {now} : k \in DOMAIN snaps /\ snaps[k] = pre.snaps[k]

\* the first restore's snapshot of the original files, replaced within the
\* same second by a snapshot of the restored ones
SnapshotReplaced ==
    /\ pc = "done" /\ fault = NoFault
    /\ now \in DOMAIN pre.snaps /\ snaps[now] # pre.snaps[now]
----------------------------------------------------------------------------
(* A folder restore or a remote restore whose source cannot be read through *)

ReadFaults ==
    {NoFault} \cup {[step |-> s, at |-> k] : s \in {"read", "list", "get"}, k \in FaultAt}

\* either a folder is selected on disk and the repository is empty, or
\* nothing is on disk and the repository holds the remote backups
InitReadFirst ==
    /\ cfg \in {NoTree, EmptyDir, TreeOfFiles([p \in {F_GLOBAL, F_EXTRA} |-> 1])}
    /\ \/ src \in {s \in OpsSources : s.kind = "dir"} /\ remote = NoFiles
       \/ src = NoSource /\ remote \in RemoteTrees
    /\ fault \in ReadFaults
    /\ settings = [DefaultSettings EXCEPT ![K_DEST_TYPE] = "github",
                                          ![K_GH_TOKEN] = "ghp",
                                          ![K_GH_REPO_SELECT] = "user/obs",
                                          ![K_RESTORE_LOCAL_PATH] = SEL_PATH]
    /\ snaps = NoSnaps /\ now = 0 /\ backups = NoTree
    /\ Idle

NextReadFirst == RestoreLocal \/ RestoreRemoteSelected

SpecReadFirst == InitReadFirst /\ [][NextReadFirst]_vars

FolderRestoreDone == pc = "done" /\ last.op = "do_restore_local" /\ src.kind = "dir"
RemoteRestoreDone == pc = "done" /\ last.op = "restore_remote_selected"

\* a directory listing or a file read of the source failed
SourceReadFailed == last.failed \cap {"read", "list", "get"} # {}

\* the repository has no file at or below the remote root of the selection
NoRemoteFile ==
    ~\E p \in DOMAIN remote : remote[p] # 0 /\ IsPrefix(Components(collected.base), p)

(* C14: a folder restore or a remote restore in which a directory listing or
   a file read of the source fails, and a remote restore of a backup that
   holds no file, returns False without having reached the overwrite of
   ConfigRoot: ConfigRoot is not created, no snapshot is taken and every file
   of ConfigRoot is as it was. *)
C14_SourceReadBeforeConfigTouched ==
    ((FolderRestoreDone /\ SourceReadFailed)
        \/ (RemoteRestoreDone /\ (SourceReadFailed \/ NoRemoteFile))) =>
        /\ last.ret = "False" /\ ~last.entered
        /\ cfg = pre.cfg /\ snaps = pre.snaps

\* the second of two files of the folder cannot be read, ConfigRoot holds files
C14_Witness ==
    /\ FolderRestoreDone /\ fault = [step |-> "read", at |-> 2] /\ "read" \in last.failed
    /\ Cardinality(FilesOf(src.tree)) = 2
    /\ FilesOf(pre.cfg) # {} /\ cfg = pre.cfg /\ last.ret = "False"

\* the download of the second of two remote files fails, ConfigRoot is absent
C14_WitnessRemote ==
    /\ RemoteRestoreDone /\ fault = [step |-> "get", at |-> 2] /\ "get" \in last.failed
    /\ Len(collected.pairs) = 1
    /\ ~Exists(pre.cfg, <<>>) /\ ~Exists(cfg, <<>>) /\ last.ret = "False"

\* the second listing fails
C14_WitnessListing ==
    /\ RemoteRestoreDone /\ fault = [step |-> "list", at |-> 2] /\ "list" \in last.failed
    /\ cfg = pre.cfg /\ last.ret = "False"

\* the selected remote directory holds files, none of them below obs-studio
C14_WitnessEmpty ==
    /\ RemoteRestoreDone /\ fault = NoFault /\ NoRemoteFile /\ "empty" \in last.failed
    /\ R_NOTES \in DOMAIN remote /\ collected.base = AsPosix(REMOTE_ROOT)
    /\ FilesOf(pre.cfg) # {} /\ cfg = pre.cfg /\ last.ret = "False"
----------------------------------------------------------------------------
(* A restore run statement by statement: the checks and reads, the mkdir of
   ConfigRoot, the snapshot, then the overwrite loop one turn at a time *)

StepFaults ==
    {NoFault, [step |-> "read", at |-> 1]}
    \cup {[step |-> s, at |-> 1] : s \in {"mkdir", "snapshot"}}
    \cup {[step |-> s, at |-> k] : s \in {"delete", "write"}, k \in FaultAt}

InitSteps ==
    /\ cfg \in {NoTree, TreeOfFiles([p \in {<<Plain("basic")>>} |-> 1])}
               \cup {TreeOfFiles(f) : f \in FileMaps({F_GLOBAL, F_SCENE})}
    /\ \/ src \in OpsSources /\ remote = NoFiles
       \/ src = NoSource /\ remote \in OpsRemotes
    /\ fault \in StepFaults
    /\ settings = [DefaultSettings EXCEPT ![K_DEST_TYPE] = "github",
                                          ![K_GH_TOKEN] = "ghp",
                                          ![K_GH_REPO_SELECT] = "user/obs",
                                          ![K_RESTORE_LOCAL_PATH] = SEL_PATH]
    /\ snaps = NoSnaps /\ now = 0 /\ backups = NoTree
    /\ Idle

OP_LOCAL == "do_restore_local"
OP_REMOTE == "restore_remote_selected"

\* an operation that has reached the overwrite routine and not yet returned
Running(op) ==
    [op |-> op, ret |-> "none", escaped |-> "none", log |-> <<>>, failed |-> {},
     entered |-> TRUE]

DoneLog(op) ==
    IF op = OP_LOCAL THEN <<Info("Local restore complete")>>
    ELSE <<Info("Remote restore complete")>>
ErrText(op) == IF op = OP_LOCAL THEN "Local restore failed" ELSE "Remote restore failed"

\* the running operation ends here: with exc raised, or returning when exc is "none"
Ends(exc, log, failed) ==
    /\ pc' = "done"
    /\ last' = TryExcept(last.op, Entered(Body(cfg, snaps, exc, log, failed)),
                         DoneLog(last.op), ErrText(last.op))

\* BAR.py:484-485: the run is _extract_zip_to_config
IsZipRun == last.op = OP_LOCAL /\ src.kind = "file"

\* the pairs handed to _restore_pairs_to_config: BAR.py:473 and 527
RunPairs ==
    IF last.op = OP_LOCAL
    THEN CollectFolderPairs(src.tree, RestoreRoot(src.name, src.tree))
    ELSE collected.pairs

\* BAR.py:402-406
ZipRoot == IF Exists(src.tree, <<OBS_STUDIO>>) THEN <<OBS_STUDIO>> ELSE <<>>
ZipItems == Listing(Entries(src.tree, ZipRoot))

Turns == IF IsZipRun THEN Len(ZipItems) ELSE Len(RunPairs)

\* BAR.py:478-487 and 457-472: the checks and the reads of the source; a run
\* they stop ends at once
BeginLocal ==
    /\ pc = "idle"
    /\ IF RestoreLocalBody(cfg, snaps, now, settings[K_RESTORE_LOCAL_PATH], src, fault).entered
       THEN /\ pc' = "mkdir"
            /\ last' = Running(OP_LOCAL)
            /\ pre' = [cfg |-> cfg, snaps |-> snaps, remote |-> remote]
            /\ UNCHANGED <<cfg, snaps, now, settings, obs_settings, src, backups, remote,
                           fault, walked, collected, turn>>
       ELSE pc' = "done" /\ do_restore_local

\* BAR.py:503-526: the traversal of the selected remote directory
BeginRemote ==
    /\ pc = "idle"
    /\ \E sel_path \in SelPaths :
           \E r \in {RestoreRemoteFrom(cfg, snaps, remote, sel_path, now, fault)} :
               /\ collected' = r.collect
               /\ IF r.body.entered
                  THEN pc' = "mkdir" /\ last' = Running(OP_REMOTE)
                  ELSE /\ pc' = "done"
                       /\ last' = TryExcept(OP_REMOTE, r.body, DoneLog(OP_REMOTE), ErrText(OP_REMOTE))
    /\ pre' = [cfg |-> cfg, snaps |-> snaps, remote |-> remote]
    /\ UNCHANGED <<cfg, snaps, now, settings, obs_settings, src, backups, remote, fault,
                   walked, turn>>

\* BAR.py:386-387 and 439: cfg.mkdir(parents=True, exist_ok=True)
Mkdir ==
    /\ pc = "mkdir"
    /\ IF Exists(cfg, <<>>)
       THEN pc' = "snapshot" /\ UNCHANGED <<cfg, last>>
       ELSE IF Fails(fault, "mkdir", 1)
       THEN Ends("OSError", last.log, last.failed \cup {"mkdir"}) /\ UNCHANGED cfg
       ELSE cfg' = EmptyDir /\ pc' = "snapshot" /\ UNCHANGED last
    /\ UNCHANGED <<snaps, now, settings, obs_settings, src, backups, remote, fault, walked,
                   collected, pre, turn>>

\* a faulty variant: the overwrite loop starts without the snapshot
SnapshotSkipped ==
    /\ pc = "snapshot"
    /\ pc' = IF IsZipRun THEN "extract" ELSE "apply"
    /\ turn' = 1
    /\ UNCHANGED <<cfg, snaps, now, settings, obs_settings, src, backups, remote, fault,
                   walked, collected, last, pre>>

\* BAR.py:388-396 and 440
Snapshot ==
    /\ pc = "snapshot"
    /\ \E b \in {IF IsZipRun THEN TakeSnapshot(cfg, snaps, now, fault)
                 ELSE _backup_current_config(cfg, snaps, now, fault)} :
           /\ snaps' = b.snaps
           /\ last' = [last EXCEPT !.log = @ \o b.log, !.failed = @ \cup b.failed]
    /\ pc' = IF IsZipRun THEN "extract" ELSE "apply"
    /\ turn' = 1
    /\ UNCHANGED <<cfg, now, settings, obs_settings, src, backups, remote, fault, walked,
                   collected, pre>>

\* BAR.py:399-406: the archive is opened and extracted, its root is listed
Extract ==
    /\ pc = "extract"
    /\ IF Fails(fault, "read", 1)
       THEN Ends("BadZipFile", last.log, last.failed \cup {"read"})
       ELSE IF ~IsDir(src.tree, ZipRoot)
       THEN Ends("OSError", last.log \o <<Info("Restoring")>>, last.failed \cup {"read"})
       ELSE pc' = "apply" /\ last' = [last EXCEPT !.log = @ \o <<Info("Restoring")>>]
    /\ UNCHANGED <<cfg, snaps, now, settings, obs_settings, src, backups, remote, fault,
                   walked, collected, pre, turn>>

\* one turn of the loop at BAR.py:406-420 or 441-453
Turn(t, i, flt) ==
    IF IsZipRun
    THEN ReplaceItems(t, src.tree, ZipRoot, SubSeq(ZipItems, 1, i), i, flt)
    ELSE ApplyPairs(t, SubSeq(RunPairs, 1, i), i, flt)

Apply ==
    /\ pc = "apply" /\ turn <= Turns
    /\ \E r \in {Turn(cfg, turn, fault)} :
           /\ cfg' = r.cfg
           /\ IF r.exc # "none"
              THEN Ends(r.exc, last.log, last.failed \cup r.failed) /\ UNCHANGED turn
              ELSE /\ turn' = turn + 1
                   /\ last' = [last EXCEPT !.failed = @ \cup r.failed]
                   /\ UNCHANGED pc
    /\ UNCHANGED <<snaps, now, settings, obs_settings, src, backups, remote, fault, walked,
                   collected, pre>>

\* BAR.py:488-489 and 528-529: the loop is over
Return ==
    /\ pc = "apply" /\ turn > Turns
    /\ Ends("none", last.log, last.failed)
    /\ UNCHANGED <<cfg, snaps, now, settings, obs_settings, src, backups, remote, fault,
                   walked, collected, pre, turn>>

NextSteps == BeginLocal \/ BeginRemote \/ Mkdir \/ Snapshot \/ Extract \/ Apply \/ Return

SpecSteps == InitSteps /\ [][NextSteps]_vars

\* the finished run left what the operation taken as a whole leaves
StepsAgree ==
    (pc = "done" /\ last.entered) =>
        LET b == IF last.op = OP_LOCAL
                 THEN RestoreLocalBody(pre.cfg, pre.snaps, now, settings[K_RESTORE_LOCAL_PATH],
                                       src, fault)
                 ELSE _restore_pairs_to_config(pre.cfg, pre.snaps, now, collected.pairs, fault)
        IN  /\ cfg = b.cfg /\ snaps = b.snaps
            /\ last = TryExcept(last.op, b, DoneLog(last.op), ErrText(last.op))

\* the run is inside the overwrite routine, or has been
InRestore == pc \in {"mkdir", "snapshot", "extract", "apply", "done"} /\ last.entered

\* what is inside a directory
Inside(t) == [p \in (DOMAIN t) \ {<<>>} |-> t[p]]

\* something inside ConfigRoot was deleted or written, ConfigRoot itself
\* was replaced, or a turn of the overwrite loop is over
ConfigTouched ==
    \/ Inside(cfg) # Inside(pre.cfg)
    \/ IsFile(cfg, <<>>)
    \/ turn > 1

\* the snapshot was attempted: its notice is in the log
SnapshotAttempted ==
    \E k \in 1..Len(last.log) : last.log[k] = Info("Backing up current config")

SnapshotCreated == SnapshotAttempted /\ "snapshot" \notin last.failed

(* C11: in every restore execution the snapshot attempt comes before the
   first deletion or write inside ConfigRoot, and a snapshot that is created
   successfully holds exactly the files and bytes ConfigRoot had when the
   restore was invoked. *)
C11_SnapshotBeforeOverwrite ==
    InRestore =>
        /\ ConfigTouched => SnapshotAttempted
        /\ SnapshotCreated =>
               /\ now \in DOMAIN snaps
               /\ FilesOf(snaps[now]) = FilesOf(pre.cfg)
               /\ \A f \in FilesOf(pre.cfg) : snaps[now][f] = pre.cfg[f]

\* a file of ConfigRoot has been overwritten with other bytes and the
\* snapshot made before holds the earlier ones
C11_Witness ==
    /\ InRestore /\ pc = "apply" /\ turn > 1 /\ SnapshotCreated
    /\ IsFile(pre.cfg, F_GLOBAL) /\ IsFile(cfg, F_GLOBAL)
    /\ cfg[F_GLOBAL] # pre.cfg[F_GLOBAL]
    /\ snaps[now][F_GLOBAL] = pre.cfg[F_GLOBAL]

\* the same in a restore from a zip
C11_WitnessZip == C11_Witness /\ IsZipRun
====
